---- MODULE Spec2Model ----
(***************************************************************************)
(* Manager screens of Bus-Go: the vehicle list screen                      *)
(* (ManagerVehiclesScreen), the trip update form (UpdateTrip) and the      *)
(* profile screen (ManagerProfileScreen).  Each screen owns its own React  *)
(* state; each has its own specification below (Spec, SpecRender,          *)
(* SpecTrip, SpecProfile) over the variables of that screen.               *)
(***************************************************************************)
EXTENDS Integers, Sequences, FiniteSets, TLC

\* ------------------------------------------------------------------ bounds
\* Longest vehicle collection the API returns in the model.
MaxVehicles == 2
\* Most loadVehicles invocations (mount, dependency change, refresh, retry).
MaxLoads == 2
\* Largest fuel percentage (Vehicle.fuelLevel is a percentage).
MaxFuel == 100

\* ------------------------------------------------------------- JS values
\* JavaScript's null and undefined, kept apart from every string value.
Null == "<null>"
Undefined == "<undefined>"

VARIABLES
    \* --- ManagerVehiclesScreen (vehicles.tsx 34-253)
    user,         \* useAuth().user
    vehicles,     \* useState<Vehicle[]>([])
    refreshing,   \* useState(false)
    loading,      \* useState(true)
    error,        \* useState<string | null>(null)
    effectDue,    \* the useEffect of line 42 is scheduled and has not run yet
    inflight,     \* getVehiclesByManager promises not yet settled
    issued,       \* number of getVehiclesByManager calls made so far
    loadCalls,    \* how often loadVehicles was invoked, per caller
    lastResponse, \* the promise that settled last
    lastOk,       \* the promise that resolved last, and its payload
    prevOkId,     \* the promise that resolved before that one
    \* --- renderVehicle on one item (vehicles.tsx 98-174)
    item,         \* the item handed to renderVehicle
    card,         \* what renderVehicle produced for it
    \* --- UpdateTrip (vehicles.tsx 445-560)
    tripId,         \* useLocalSearchParams().id
    form,           \* useState<any>({})
    tripLoading,    \* useState(false), named loading in UpdateTrip
    fetching,       \* useState(true)
    tripEffectDue,  \* the useEffect of line 451 has not run yet
    pendingFetch,   \* the 500 ms timer of line 453 is pending
    pendingSubmits, \* 1000 ms timers of line 481 that are pending
    submits,        \* how often handleSubmit was invoked
    tripAlerts,     \* titles of the Alert.alert calls, in order
    backs,          \* number of router.back() calls
    onScreen,       \* UpdateTrip is still the mounted top screen
    \* --- ManagerProfileScreen (profile.tsx 26-222)
    authUser,       \* useAuth().user, named user in the profile screen
    isEditing,      \* useState(false)
    editedProfile,  \* useState({username, email, ...})
    profileAlerts,  \* titles of the Alert.alert confirmations, in order
    saves,          \* how often handleSave was invoked
    logoutDialog,   \* the logout confirmation dialog is open
    dialogAnswer,   \* the button that closed the dialog last
    logoutPending,  \* logout() calls that have not settled yet
    logoutCalls,    \* number of logout() calls
    routes          \* router.push / router.replace calls, in order

vehicleVars == <<user, vehicles, refreshing, loading, error, effectDue,
                 inflight, issued, loadCalls, lastResponse, lastOk, prevOkId>>
renderVars == <<item, card>>
tripVars == <<tripId, form, tripLoading, fetching, tripEffectDue, pendingFetch,
              pendingSubmits, submits, tripAlerts, backs, onScreen>>
profileVars == <<authUser, isEditing, editedProfile, profileAlerts, saves,
                 logoutDialog, dialogAnswer, logoutPending, logoutCalls, routes>>
vars == <<vehicleVars, renderVars, tripVars, profileVars>>
\* What the vehicle list screen never touches.
otherScreens == <<renderVars, tripVars, profileVars>>
\* What the trip update form never touches.
notTrip == <<vehicleVars, renderVars, profileVars>>
\* What the profile screen never touches.
notProfile == <<vehicleVars, renderVars, tripVars>>

\* ------------------------------------------------------------ data model
KnownStatuses == {"active", "maintenance", "inactive"}
\* A status string outside the enumeration, and a missing status.
Statuses == KnownStatuses \cup {"retired", Undefined}

FuelLevels == 0..MaxFuel
\* The fuel level the modelled API reports; the list screen's state does
\* not depend on it.
FleetFuelLevels == {MaxFuel}

Vehicle(levels) == [status : Statuses, fuelLevel : levels]

RECURSIVE SeqsUpTo(_, _)
SeqsUpTo(S, n) ==
    IF n = 0 THEN {<<>>}
    ELSE LET shorter == SeqsUpTo(S, n - 1)
         IN  shorter \cup {Append(s, x) : s \in {t \in shorter : Len(t) = n - 1}, x \in S}

\* What getVehiclesByManager may resolve with.
Payloads == SeqsUpTo(Vehicle(FleetFuelLevels), MaxVehicles)

NoUser == [present |-> FALSE, username |-> Undefined]
Users == {NoUser} \cup {[present |-> TRUE, username |-> n] : n \in {"", "m1", "m2"}}

\* user?.username
UsernameOf(u) == IF u.present THEN u.username ELSE Undefined
\* !user?.username is false: a non-empty string
HasUsername(u) == UsernameOf(u) \notin {Undefined, ""}

FetchFailedMessage == "Failed to load vehicles. Please try again."

\* ------------------------------------------------------- pure functions
getStatusColor(status) ==
    CASE status = "active" -> "#10B981"
      [] status = "maintenance" -> "#F59E0B"
      [] status = "inactive" -> "#6B7280"
      [] OTHER -> "#6B7280"

getStatusBgColor(status) ==
    CASE status = "active" -> "#D1FAE5"
      [] status = "maintenance" -> "#FEF3C7"
      [] status = "inactive" -> "#F3F4F6"
      [] OTHER -> "#F3F4F6"

getFuelLevelColorOffByOne(level) ==
    IF level >= 50 THEN "#10B981"
    ELSE IF level >= 25 THEN "#F59E0B"
    ELSE "#DC2626"

getFuelLevelColor(level) ==
    IF level > 50 THEN "#10B981"
    ELSE IF level > 25 THEN "#F59E0B"
    ELSE "#DC2626"

\* String.prototype.toUpperCase on the status strings of the model.
toUpperCase(s) ==
    CASE s = "active" -> "ACTIVE"
      [] s = "maintenance" -> "MAINTENANCE"
      [] s = "inactive" -> "INACTIVE"
      [] s = "retired" -> "RETIRED"

NotRendered == [threw |-> FALSE, rendered |-> FALSE]
Threw == [threw |-> TRUE, rendered |-> FALSE]

\* renderVehicle: the status badge (lines 108-122) is evaluated before the
\* fuel row (146-160); item.status.toUpperCase() throws a TypeError when
\* status is undefined.
renderVehicle(it) ==
    IF it.status = Undefined
    THEN Threw
    ELSE [threw |-> FALSE, rendered |-> TRUE,
          badgeBg |-> getStatusBgColor(it.status),
          badgeColor |-> getStatusColor(it.status),
          badgeText |-> toUpperCase(it.status),
          fuelColor |-> getFuelLevelColor(it.fuelLevel)]

\* The summary counts of lines 212-231.
CountStatus(vs, status) == Len(SelectSeq(vs, LAMBDA v : v.status = status))
ActiveCount == CountStatus(vehicles, "active")
MaintenanceCountCopied == CountStatus(vehicles, "active")
MaintenanceCount == CountStatus(vehicles, "maintenance")
InactiveCount == CountStatus(vehicles, "inactive")

\* Which of the four returns of the component body is taken (176-203).
View ==
    IF loading /\ ~refreshing THEN "loading"
    ELSE IF error # Null THEN "error"
    ELSE IF ~user.present THEN "login"
    ELSE "list"

\* The list view renders every item; one throwing item takes the screen down.
Crashed == View = "list" /\ \E i \in DOMAIN vehicles : renderVehicle(vehicles[i]).threw

\* ------------------------------------------------- vehicle list: actions
TotalLoads == loadCalls.mount + loadCalls.dep + loadCalls.refresh + loadCalls.retry

NoResponse == [id |-> 0, ok |-> FALSE, data |-> <<>>]
NoOk == [id |-> 0, data |-> <<>>]

\* loadVehicles (46-60) up to the await: the guard on the username,
\* setLoading(true) and the call of getVehiclesByManager(user.username).
loadVehiclesUnguarded(via) ==
    /\ TotalLoads < MaxLoads
    /\ loadCalls' = [loadCalls EXCEPT ![via] = @ + 1]
    /\ loading' = TRUE
    /\ issued' = issued + 1
    /\ inflight' = inflight \cup
           {[id |-> issued + 1, username |-> UsernameOf(user), via |-> via]}
    /\ UNCHANGED <<vehicles, error, refreshing>>

loadVehicles(via) ==
    /\ TotalLoads < MaxLoads
    /\ loadCalls' = [loadCalls EXCEPT ![via] = @ + 1]
    /\ IF ~HasUsername(user)
       THEN UNCHANGED <<loading, issued, inflight>>
       ELSE /\ loading' = TRUE
            /\ issued' = issued + 1
            /\ inflight' = inflight \cup
                   {[id |-> issued + 1, username |-> user.username, via |-> via]}
    /\ UNCHANGED <<vehicles, error, refreshing>>

\* The try branch after the await (52-53) and the finally (58).
LoadSucceededKeepsError(data) ==
    /\ vehicles' = data
    /\ loading' = FALSE
    /\ UNCHANGED <<error, refreshing>>

LoadSucceededAppends(data) ==
    /\ vehicles' = vehicles \o data
    /\ error' = Null
    /\ loading' = FALSE
    /\ UNCHANGED refreshing

LoadSucceeded(data) ==
    /\ vehicles' = data
    /\ error' = Null
    /\ loading' = FALSE
    /\ UNCHANGED refreshing

\* The catch branch (54-56) and the finally (58).
LoadFailedClears ==
    /\ vehicles' = <<>>
    /\ error' = FetchFailedMessage
    /\ loading' = FALSE
    /\ UNCHANGED refreshing

LoadFailed ==
    /\ error' = FetchFailedMessage
    /\ loading' = FALSE
    /\ UNCHANGED <<vehicles, refreshing>>

\* useEffect(() => { loadVehicles(); }, [user?.username]): once after the
\* first render, and again after a render in which user?.username differs.
RunEffect ==
    /\ ~Crashed
    /\ effectDue
    /\ effectDue' = FALSE
    /\ loadVehicles(IF loadCalls.mount = 0 THEN "mount" ELSE "dep")
    /\ UNCHANGED <<user, lastResponse, lastOk, prevOkId, otherScreens>>

\* useAuth() hands the component another user (login, logout, switch).
AuthChange(u) ==
    /\ ~Crashed
    /\ ~effectDue
    /\ u # user
    /\ UsernameOf(u) # UsernameOf(user) => TotalLoads < MaxLoads
    /\ user' = u
    /\ effectDue' = (UsernameOf(u) # UsernameOf(user))
    /\ UNCHANGED <<vehicles, refreshing, loading, error, inflight, issued,
                   loadCalls, lastResponse, lastOk, prevOkId, otherScreens>>

\* RefreshControl's onRefresh (62-64, 237-239): offered by the list view.
onRefresh ==
    /\ ~Crashed
    /\ ~effectDue
    /\ View = "list"
    /\ loadVehicles("refresh")
    /\ UNCHANGED <<user, effectDue, lastResponse, lastOk, prevOkId, otherScreens>>

\* The Retry button of the error view (188).
RetryPress ==
    /\ ~Crashed
    /\ ~effectDue
    /\ View = "error"
    /\ loadVehicles("retry")
    /\ UNCHANGED <<user, effectDue, lastResponse, lastOk, prevOkId, otherScreens>>

\* A getVehiclesByManager promise resolves with data.
Resolve(r, data) ==
    /\ ~Crashed
    /\ r \in inflight
    /\ inflight' = inflight \ {r}
    /\ LoadSucceeded(data)
    /\ lastResponse' = [id |-> r.id, ok |-> TRUE, data |-> data]
    /\ lastOk' = [id |-> r.id, data |-> data]
    /\ prevOkId' = lastOk.id
    /\ UNCHANGED <<user, effectDue, issued, loadCalls, otherScreens>>

\* A getVehiclesByManager promise is rejected.
Reject(r) ==
    /\ ~Crashed
    /\ r \in inflight
    /\ inflight' = inflight \ {r}
    /\ LoadFailed
    /\ lastResponse' = [id |-> r.id, ok |-> FALSE, data |-> <<>>]
    /\ UNCHANGED <<user, effectDue, issued, loadCalls, lastOk, prevOkId, otherScreens>>

InitVehicles ==
    /\ user \in Users
    /\ vehicles = <<>>
    /\ refreshing = FALSE
    /\ loading = TRUE
    /\ error = Null
    /\ effectDue = TRUE
    /\ inflight = {}
    /\ issued = 0
    /\ loadCalls = [mount |-> 0, dep |-> 0, refresh |-> 0, retry |-> 0]
    /\ lastResponse = NoResponse
    /\ lastOk = NoOk
    /\ prevOkId = 0

\* ------------------------------------------------------ trip update form
\* Most handleSubmit invocations.
MaxSubmits == 2

\* !x is true of a string field: it is missing or the empty string.
Falsy(x) == x \in {Undefined, ""}

TripFields == {"vehicle_id", "driver_id", "start_time", "start_location", "end_location"}
EmptyForm == [f \in TripFields |-> Undefined]
\* The trip the simulated fetch of lines 454-460 delivers.
FetchedTrip ==
    [vehicle_id |-> "1", driver_id |-> "1", start_time |-> "2024-07-01 09:00",
     start_location |-> "Chennai", end_location |-> "Madurai"]
\* What a TextInput may hand to onChangeText.
TypedTexts == {"", "typed"}

\* The condition of handleSubmit (470-476).
MissingRequiredUnchecked(f) ==
    \/ Falsy(f.vehicle_id)
    \/ Falsy(f.driver_id)
    \/ Falsy(f.start_time)
    \/ Falsy(f.start_location)

MissingRequired(f) ==
    \/ Falsy(f.vehicle_id)
    \/ Falsy(f.driver_id)
    \/ Falsy(f.start_time)
    \/ Falsy(f.start_location)
    \/ Falsy(f.end_location)

\* useEffect of 451-463: without an id nothing is scheduled.
tripEffect ==
    /\ tripEffectDue
    /\ tripEffectDue' = FALSE
    /\ pendingFetch' = ~Falsy(tripId)
    /\ UNCHANGED <<tripId, form, tripLoading, fetching, pendingSubmits, submits,
                   tripAlerts, backs, onScreen>>
    /\ UNCHANGED notTrip

\* The 500 ms timer of the effect fires (453-462).
FetchTimerFires ==
    /\ pendingFetch
    /\ pendingFetch' = FALSE
    /\ form' = FetchedTrip
    /\ fetching' = FALSE
    /\ UNCHANGED <<tripId, tripLoading, tripEffectDue, pendingSubmits, submits,
                   tripAlerts, backs, onScreen>>
    /\ UNCHANGED notTrip

\* handleChange (465-467), from a TextInput of the rendered form.
handleChange(field, value) ==
    /\ onScreen
    /\ ~fetching
    /\ form' = [form EXCEPT ![field] = value]
    /\ UNCHANGED <<tripId, tripLoading, fetching, tripEffectDue, pendingFetch,
                   pendingSubmits, submits, tripAlerts, backs, onScreen>>
    /\ UNCHANGED notTrip

\* handleSubmit (469-486), from the submit button, which is rendered once
\* fetching is false and is disabled while loading (543-547).
handleSubmitNotDisabled ==
    /\ onScreen
    /\ ~fetching
    /\ submits < MaxSubmits
    /\ submits' = submits + 1
    /\ IF MissingRequired(form)
       THEN /\ tripAlerts' = Append(tripAlerts, "Missing Fields")
            /\ UNCHANGED <<tripLoading, pendingSubmits>>
       ELSE /\ tripLoading' = TRUE
            /\ pendingSubmits' = pendingSubmits + 1
            /\ UNCHANGED tripAlerts
    /\ UNCHANGED <<tripId, form, fetching, tripEffectDue, pendingFetch, backs, onScreen>>
    /\ UNCHANGED notTrip

handleSubmit ==
    /\ onScreen
    /\ ~fetching
    /\ ~tripLoading
    /\ submits < MaxSubmits
    /\ submits' = submits + 1
    /\ IF MissingRequired(form)
       THEN /\ tripAlerts' = Append(tripAlerts, "Missing Fields")
            /\ UNCHANGED <<tripLoading, pendingSubmits>>
       ELSE /\ tripLoading' = TRUE
            /\ pendingSubmits' = pendingSubmits + 1
            /\ UNCHANGED tripAlerts
    /\ UNCHANGED <<tripId, form, fetching, tripEffectDue, pendingFetch, backs, onScreen>>
    /\ UNCHANGED notTrip

\* The 1000 ms timer of handleSubmit fires (481-485).  setLoading on a
\* screen that was already popped is ignored by React.
SubmitTimerFires ==
    /\ pendingSubmits > 0
    /\ pendingSubmits' = pendingSubmits - 1
    /\ tripLoading' = (IF onScreen THEN FALSE ELSE tripLoading)
    /\ tripAlerts' = Append(tripAlerts, "Success")
    /\ backs' = backs + 1
    /\ onScreen' = FALSE
    /\ UNCHANGED <<tripId, form, fetching, tripEffectDue, pendingFetch, submits>>
    /\ UNCHANGED notTrip

\* The header's back button (500).
BackPress ==
    /\ onScreen
    /\ ~fetching
    /\ backs' = backs + 1
    /\ onScreen' = FALSE
    /\ UNCHANGED <<tripId, form, tripLoading, fetching, tripEffectDue, pendingFetch,
                   pendingSubmits, submits, tripAlerts>>
    /\ UNCHANGED notTrip

InitTrip ==
    /\ tripId \in {Undefined, "7"}
    /\ form = EmptyForm
    /\ tripLoading = FALSE
    /\ fetching = TRUE
    /\ tripEffectDue = TRUE
    /\ pendingFetch = FALSE
    /\ pendingSubmits = 0
    /\ submits = 0
    /\ tripAlerts = <<>>
    /\ backs = 0
    /\ onScreen = TRUE

IdleTrip == InitTrip /\ tripId = Undefined

\* --------------------------------------------------------- profile screen
\* Most handleSave invocations.
MaxSaves == 2
\* Most presses of Change Password.
MaxPushes == 1
\* Most confirmed logouts.
MaxLogouts == 1

ProfileFields == {"username", "email", "phone_number", "organization", "address"}
NoProfileUser == [f \in ProfileFields |-> Undefined]
\* The authenticated users of the model: every field set or empty.
ProfileUsers == {NoProfileUser} \cup [ProfileFields -> {"", "u"}]

\* user?.field || ''
OrEmpty(x) == IF Falsy(x) THEN "" ELSE x

\* What display mode shows for a field (116, 135, 154, 172, 191).
DisplayValue(u, f) ==
    IF f \in {"username", "email"} THEN u[f]
    ELSE IF Falsy(u[f]) THEN "Not provided" ELSE u[f]

\* What the field's row shows: the TextInput's value in edit mode, the
\* authenticated user's value otherwise (109-117 and the four rows after).
FieldShown(f) ==
    IF isEditing THEN editedProfile[f] ELSE DisplayValue(authUser, f)

\* router.replace('/auth') takes the profile screen off the stack.
OnProfile == \A i \in DOMAIN routes : routes[i] # "replace /auth"

Pushes == Len(SelectSeq(routes, LAMBDA r : r = "push /change-password"))

\* The edit button while not editing (87-93).
StartEditing ==
    /\ OnProfile
    /\ ~logoutDialog
    /\ ~isEditing
    /\ isEditing' = TRUE
    /\ UNCHANGED <<authUser, editedProfile, profileAlerts, saves, logoutDialog,
                   logoutPending, logoutCalls, routes>>
    /\ UNCHANGED dialogAnswer
    /\ UNCHANGED notProfile

\* onChangeText of a field's TextInput (113, 131, 150, 169, 187).
onChangeText(f, text) ==
    /\ OnProfile
    /\ ~logoutDialog
    /\ isEditing
    /\ editedProfile' = [editedProfile EXCEPT ![f] = text]
    /\ UNCHANGED <<authUser, isEditing, profileAlerts, saves, logoutDialog,
                   logoutPending, logoutCalls, routes>>
    /\ UNCHANGED dialogAnswer
    /\ UNCHANGED notProfile

\* handleSave (38-46), from the edit button while editing (87-89).
handleSavePersists ==
    /\ OnProfile
    /\ ~logoutDialog
    /\ isEditing
    /\ saves < MaxSaves
    /\ saves' = saves + 1
    /\ authUser' = editedProfile
    /\ profileAlerts' = Append(profileAlerts, "Success")
    /\ isEditing' = FALSE
    /\ UNCHANGED <<editedProfile, logoutDialog, logoutPending, logoutCalls, routes>>
    /\ UNCHANGED dialogAnswer
    /\ UNCHANGED notProfile

handleSave ==
    /\ OnProfile
    /\ ~logoutDialog
    /\ isEditing
    /\ saves < MaxSaves
    /\ saves' = saves + 1
    /\ profileAlerts' = Append(profileAlerts, "Success")
    /\ isEditing' = FALSE
    /\ UNCHANGED <<authUser, editedProfile, logoutDialog, logoutPending,
                   logoutCalls, routes>>
    /\ UNCHANGED dialogAnswer
    /\ UNCHANGED notProfile

\* The Change Password row (200).
ChangePasswordPress ==
    /\ OnProfile
    /\ ~logoutDialog
    /\ Pushes < MaxPushes
    /\ routes' = Append(routes, "push /change-password")
    /\ UNCHANGED <<authUser, isEditing, editedProfile, profileAlerts, saves,
                   logoutDialog, logoutPending, logoutCalls>>
    /\ UNCHANGED dialogAnswer
    /\ UNCHANGED notProfile

\* handleLogout (48-64): only opens the confirmation dialog.
handleLogout ==
    /\ OnProfile
    /\ ~logoutDialog
    /\ logoutCalls < MaxLogouts
    /\ logoutDialog' = TRUE
    /\ UNCHANGED <<authUser, isEditing, editedProfile, profileAlerts, saves,
                   logoutPending, logoutCalls, routes>>
    /\ dialogAnswer' = "none"
    /\ UNCHANGED notProfile

\* The dialog's Cancel button (53).
LogoutCancel ==
    /\ logoutDialog
    /\ logoutDialog' = FALSE
    /\ UNCHANGED <<authUser, isEditing, editedProfile, profileAlerts, saves,
                   logoutPending, logoutCalls, routes>>
    /\ dialogAnswer' = "cancel"
    /\ UNCHANGED notProfile

\* The dialog's Logout button: onPress runs up to the await (57-58).
LogoutConfirmNotAwaited ==
    /\ logoutDialog
    /\ logoutDialog' = FALSE
    /\ logoutCalls' = logoutCalls + 1
    /\ logoutPending' = logoutPending + 1
    /\ routes' = Append(routes, "replace /auth")
    /\ UNCHANGED <<authUser, isEditing, editedProfile, profileAlerts, saves>>
    /\ dialogAnswer' = "logout"
    /\ UNCHANGED notProfile

LogoutConfirm ==
    /\ logoutDialog
    /\ logoutDialog' = FALSE
    /\ logoutCalls' = logoutCalls + 1
    /\ logoutPending' = logoutPending + 1
    /\ UNCHANGED <<authUser, isEditing, editedProfile, profileAlerts, saves, routes>>
    /\ dialogAnswer' = "logout"
    /\ UNCHANGED notProfile

\* logout() resolves and onPress continues with router.replace (59).  The
\* session provider may or may not have cleared the user by then.
LogoutResolves ==
    /\ logoutPending > 0
    /\ logoutPending' = logoutPending - 1
    /\ authUser' \in {authUser, NoProfileUser}
    /\ routes' = Append(routes, "replace /auth")
    /\ UNCHANGED <<isEditing, editedProfile, profileAlerts, saves, logoutDialog,
                   logoutCalls>>
    /\ UNCHANGED dialogAnswer
    /\ UNCHANGED notProfile

\* logout() is rejected: onPress ends at the await.
LogoutRejects ==
    /\ logoutPending > 0
    /\ logoutPending' = logoutPending - 1
    /\ UNCHANGED <<authUser, isEditing, editedProfile, profileAlerts, saves,
                   logoutDialog, logoutCalls, routes>>
    /\ UNCHANGED dialogAnswer
    /\ UNCHANGED notProfile

InitProfile ==
    /\ authUser \in ProfileUsers
    /\ isEditing = FALSE
    /\ editedProfile = [f \in ProfileFields |-> OrEmpty(authUser[f])]
    /\ profileAlerts = <<>>
    /\ saves = 0
    /\ logoutDialog = FALSE
    /\ logoutPending = 0
    /\ dialogAnswer = "none"
    /\ logoutCalls = 0
    /\ routes = <<>>

IdleProfile == InitProfile /\ authUser = NoProfileUser

IdleRender ==
    /\ item = [status |-> "active", fuelLevel |-> 0]
    /\ card = NotRendered

Init == InitVehicles /\ IdleRender /\ IdleTrip /\ IdleProfile

Next ==
    \/ RunEffect
    \/ \E u \in Users : AuthChange(u)
    \/ onRefresh
    \/ RetryPress
    \/ \E r \in inflight, data \in Payloads : Resolve(r, data)
    \/ \E r \in inflight : Reject(r)

Spec == Init /\ [][Next]_vars

\* ------------------------------------------- renderVehicle on one item
\* Every item the API can hand to renderItem: any status, any percentage.
InitRender ==
    /\ InitVehicles
    /\ user = NoUser
    /\ IdleTrip
    /\ IdleProfile
    /\ item \in Vehicle(FuelLevels)
    /\ card = NotRendered

\* FlatList calls renderItem={renderVehicle} on the item.
RenderItem ==
    /\ card = NotRendered
    /\ card' = renderVehicle(item)
    /\ UNCHANGED <<item, vehicleVars, tripVars, profileVars>>

NextRender == RenderItem

SpecRender == InitRender /\ [][NextRender]_vars

\* ------------------------------------------------- trip form: the system
IdleVehicles == InitVehicles /\ user = NoUser

InitTripScreen == IdleVehicles /\ IdleRender /\ InitTrip /\ IdleProfile

NextTrip ==
    \/ tripEffect
    \/ FetchTimerFires
    \/ \E f \in TripFields, v \in TypedTexts : handleChange(f, v)
    \/ handleSubmit
    \/ SubmitTimerFires
    \/ BackPress

SpecTrip == InitTripScreen /\ [][NextTrip]_vars

\* The effect runs after the first render and a scheduled timer fires.
SpecTripFair ==
    /\ SpecTrip
    /\ WF_vars(tripEffect)
    /\ WF_vars(FetchTimerFires)
    /\ WF_vars(SubmitTimerFires)

\* ------------------------------------------- profile screen: the system
InitProfileScreen == IdleVehicles /\ IdleRender /\ IdleTrip /\ InitProfile

NextProfile ==
    \/ StartEditing
    \/ \E f \in ProfileFields, text \in TypedTexts : onChangeText(f, text)
    \/ handleSave
    \/ ChangePasswordPress
    \/ handleLogout
    \/ LogoutCancel
    \/ LogoutConfirm
    \/ LogoutResolves
    \/ LogoutRejects

SpecProfile == InitProfileScreen /\ [][NextProfile]_vars

\* ======================================================== vehicle list
\* A step in which a getVehiclesByManager promise is rejected.
RejectedStep ==
    \E r \in inflight :
        /\ r \notin inflight'
        /\ lastResponse' = [id |-> r.id, ok |-> FALSE, data |-> <<>>]

\* A step in which a getVehiclesByManager promise resolves.
ResolvedStep ==
    \E r \in inflight :
        /\ r \notin inflight'
        /\ lastResponse'.ok
        /\ lastResponse'.id = r.id

\* C1: when a loadVehicles request is rejected, the held collection is
\* exactly what it was before (empty if no load has succeeded yet) and the
\* error state is a non-null message, after any earlier loads.
C1_FailureKeepsCollection ==
    [][RejectedStep =>
          /\ vehicles' = vehicles
          /\ (lastOk.id = 0 => vehicles' = <<>>)
          /\ error' # Null]_vars

\* A failure arrived after a success: the earlier payload is still held.
C1_Witness ==
    /\ lastResponse.id > 0
    /\ ~lastResponse.ok
    /\ lastOk.id > 0
    /\ Len(vehicles) > 0
    /\ vehicles = lastOk.data
    /\ error = FetchFailedMessage

\* C2: when a loadVehicles request resolves, the held collection becomes
\* exactly the returned collection and the error state becomes null, also
\* when an error was showing.
C2_SuccessReplacesAndClears ==
    [][ResolvedStep =>
          /\ vehicles' = lastResponse'.data
          /\ error' = Null]_vars

\* A retry (offered only by the error view) has resolved: the error is gone.
C2_Witness ==
    /\ loadCalls.retry > 0
    /\ inflight = {}
    /\ lastResponse.ok
    /\ lastResponse.id = issued
    /\ Len(vehicles) > 0
    /\ vehicles = lastResponse.data
    /\ error = Null

\* C3: with several loadVehicles requests in flight and responses in any
\* order, the held collection is at every moment the initial empty list or
\* the complete payload of the successful response that arrived last,
\* whatever the order in which the requests were issued.
C3_LastArrivedWins ==
    vehicles = lastOk.data

\* Two overlapping requests both resolved, the one issued first arriving
\* last: its payload is the one held.
C3_Witness ==
    /\ inflight = {}
    /\ lastOk.id >= 1
    /\ prevOkId > lastOk.id
    /\ lastResponse.ok
    /\ Len(vehicles) > 0
    /\ vehicles = lastOk.data

\* C4: while a pull-to-refresh fetch is in flight the refreshing flag is
\* true and the screen does not show the full-screen loading view.
C4_RefreshTracked ==
    \A r \in inflight :
        r.via = "refresh" => refreshing /\ View # "loading"

\* C5 as claimed: a request is issued only by the mount effect, a refresh
\* or a retry, and each of those issues exactly one.
C5_OnlyMountRefreshRetry ==
    [][LET explicit(c) == c.mount + c.refresh + c.retry
       IN  issued' - issued = explicit(loadCalls') - explicit(loadCalls)
           \/ ~HasUsername(user)]_vars

\* C5 amended: every run of loadVehicles with a non-empty username (the
\* mount effect, the effect re-run after user?.username changed, a refresh,
\* a retry) issues exactly one request, for that username; a run without a
\* username issues none; nothing else issues a request.
C5_OnePerLoadWithUsername ==
    [][LET runs == TotalLoads' - TotalLoads
           new == inflight' \ inflight
       IN  /\ runs \in {0, 1}
           /\ issued' - issued = (IF runs = 1 /\ HasUsername(user) THEN 1 ELSE 0)
           /\ Cardinality(new) = issued' - issued
           /\ \A r \in new : r.id = issued' /\ r.username = UsernameOf(user)]_vars

\* The username changed after the mount and the effect issued a request
\* for the new username.
C5_Witness ==
    /\ loadCalls.mount = 1
    /\ loadCalls.dep = 1
    /\ issued = 2
    /\ \E r \in inflight : r.via = "dep" /\ r.username = UsernameOf(user)

\* C6: when every held vehicle's status is active, maintenance or
\* inactive, the three summary counts sum to the size of the collection.
C6_CountsSumToSize ==
    (\A i \in DOMAIN vehicles : vehicles[i].status \in KnownStatuses)
        => ActiveCount + MaintenanceCount + InactiveCount = Len(vehicles)

\* The list view shows a two-vehicle collection of enumerated statuses.
C6_Witness ==
    /\ View = "list"
    /\ Len(vehicles) = 2
    /\ MaintenanceCount = 1
    /\ InactiveCount = 1
    /\ ActiveCount + MaintenanceCount + InactiveCount = Len(vehicles)

\* ============================================================ rendering
Healthy == "#10B981"
Warning == "#F59E0B"
Critical == "#DC2626"

\* C7: getFuelLevelColor maps 51..100 to the healthy color, 26..50 to the
\* warning color and 0..25 to the critical color.
C7_FuelTiers ==
    card.rendered =>
        /\ (item.fuelLevel >= 51 => card.fuelColor = Healthy)
        /\ (item.fuelLevel >= 26 /\ item.fuelLevel <= 50 => card.fuelColor = Warning)
        /\ (item.fuelLevel <= 25 => card.fuelColor = Critical)

\* The boundary level 50 was rendered in the warning color.
C7_Witness ==
    /\ card.rendered
    /\ item.fuelLevel = 50
    /\ card.fuelColor = Warning

\* C8: rendering a vehicle whose status is not one of the three enumerated
\* values (a missing value included) does not throw and uses the inactive
\* color pair.
C8_UnknownStatusRendersInactive ==
    (card # NotRendered /\ item.status \notin KnownStatuses) =>
        /\ ~card.threw
        /\ card.badgeColor = getStatusColor("inactive")
        /\ card.badgeBg = getStatusBgColor("inactive")

\* ============================================================ trip form
\* C9: handleSubmit with any of the five required fields empty shows the
\* 'Missing Fields' alert, starts no update (loading stays false, no
\* success alert, no navigation) and leaves the form unchanged; with all
\* five populated the update starts.
C9_SubmitValidation ==
    [][submits' = submits + 1 =>
          IF \E f \in TripFields : form[f] \in {Undefined, ""}
          THEN /\ tripAlerts' = Append(tripAlerts, "Missing Fields")
               /\ tripLoading' = FALSE
               /\ pendingSubmits' = pendingSubmits
               /\ backs' = backs
               /\ form' = form
          ELSE /\ tripLoading' = TRUE
               /\ pendingSubmits' = pendingSubmits + 1
               /\ tripAlerts' = tripAlerts
               /\ form' = form]_vars

\* A submission with a required field empty was blocked, and a later one
\* with all five fields populated is under way.
C9_Witness ==
    /\ submits = 2
    /\ tripAlerts = <<"Missing Fields">>
    /\ tripLoading
    /\ pendingSubmits = 1
    /\ backs = 0
    /\ \A f \in TripFields : form[f] \notin {Undefined, ""}

\* ======================================================= profile screen
\* C10: saving in edit mode only shows the success confirmation and sets
\* isEditing to false; the authenticated user and the edited values are
\* unchanged, neither logout nor the router is called, and display mode
\* then shows the authenticated user's values.
C10_SaveOnlyLeavesEditMode ==
    [][saves' = saves + 1 =>
          /\ profileAlerts' = Append(profileAlerts, "Success")
          /\ isEditing /\ ~isEditing'
          /\ authUser' = authUser
          /\ editedProfile' = editedProfile
          /\ logoutCalls' = logoutCalls
          /\ logoutPending' = logoutPending
          /\ routes' = routes
          /\ \A f \in ProfileFields : FieldShown(f)' = DisplayValue(authUser, f)]_vars

\* After a save the username row shows the user's name, not the typed one.
C10_Witness ==
    /\ saves = 1
    /\ ~isEditing
    /\ profileAlerts = <<"Success">>
    /\ authUser.username = "u"
    /\ editedProfile.username = "typed"
    /\ FieldShown("username") = "u"
    /\ logoutCalls = 0
    /\ routes = <<>>

\* Number of router.replace('/auth') calls so far.
Replaces == Len(SelectSeq(routes, LAMBDA r : r = "replace /auth"))

\* C11: pressing Logout only opens the confirmation dialog; logout() is
\* called only when the user confirms; router.replace('/auth') is called
\* only when a logout() call has completed; cancelling calls neither.
C11_LogoutTwoStep ==
    /\ [](Replaces <= logoutCalls - logoutPending)
    /\ [][/\ (~logoutDialog /\ logoutDialog' =>
                  /\ logoutCalls' = logoutCalls
                  /\ logoutPending' = logoutPending
                  /\ routes' = routes)
           /\ (logoutCalls' # logoutCalls =>
                  /\ logoutDialog /\ ~logoutDialog'
                  /\ dialogAnswer' = "logout"
                  /\ logoutCalls' = logoutCalls + 1
                  /\ logoutPending' = logoutPending + 1
                  /\ routes' = routes)
           /\ (routes' # routes /\ Replaces' # Replaces =>
                  /\ logoutPending > 0
                  /\ logoutPending' = logoutPending - 1
                  /\ routes' = Append(routes, "replace /auth"))
           /\ (logoutDialog /\ dialogAnswer' = "cancel" =>
                  /\ ~logoutDialog'
                  /\ logoutCalls' = logoutCalls
                  /\ logoutPending' = logoutPending
                  /\ routes' = routes)]_vars

\* The user confirmed, logout() completed and the route was replaced.
C11_Witness ==
    /\ dialogAnswer = "logout"
    /\ ~logoutDialog
    /\ logoutCalls = 1
    /\ logoutPending = 0
    /\ routes = <<"replace /auth">>

\* ================================================= vehicle list, again
\* C12: mounted without an authenticated user (or with a user that has no
\* username), the screen shows the 'Please log in to view vehicles' view
\* and does not stay on the 'Loading vehicles...' view.
C12_NoUserShowsLogin ==
    (~effectDue /\ TotalLoads = 1 /\ issued = 0 /\ ~HasUsername(user))
        => View = "login"

\* C13: the loading flag is true whenever at least one
\* getVehiclesByManager request is in flight.
C13_LoadingWhileInFlight ==
    inflight # {} => loading

====
